---- MODULE Spec2Model ----
(***************************************************************************)
(* Model of getoptsargs: the registry of positional and trailing argument *)
(* declarations (src/args.rs), the validation of free arguments against   *)
(* it (Arguments::parse) and the start-up lifecycle of Builder::run       *)
(* (src/lib.rs, src/run.rs).                                              *)
(*                                                                         *)
(* Strings that the program builds with format! are sequences of          *)
(* fragments; the text is the concatenation of the fragments.  The empty  *)
(* string is the empty sequence.                                           *)
(***************************************************************************)
EXTENDS Integers, Sequences, FiniteSets, TLC

VARIABLES
    positional_spec,  \* Arguments.positional_spec: Vec<(name, description)>
    trailing_spec,    \* Arguments.trailing_spec: Option<(name, min, max, description)>
    manpage,          \* App.manpage: Option<(page, section)>
    env_args,         \* Builder.env_args once the program name was consumed
    pc,               \* position of the program
    opt_matches,      \* Option<getopts::Matches> returned by opts.parse
    free_in,          \* Option<Vec<String>>: the argument handed to Arguments::parse
    parsed,           \* Option<outcome of Arguments::parse>
    matches,          \* Option<Matches> handed to the application's main
    main_calls,       \* number of invocations of the application's main
    main_result,      \* Option<Result<i32>>: what the application's main returned
    stdout,           \* what was printed to stdout, in order
    stderr,           \* lines printed to stderr, in order
    exit_code,        \* Option<i32>: the value Builder::run returned
    error,            \* history: Option<the error handed to handle_error>
    steps,            \* history: the calls made so far, in order
    call              \* history: Option<a direct call of a formatting function and its result>

vars == <<positional_spec, trailing_spec, manpage, env_args, pc, opt_matches,
          free_in, parsed, matches, main_calls, main_result, stdout, stderr, exit_code, error, steps,
          call>>

-----------------------------------------------------------------------------
(* Bounds of the model. *)

MaxPositional == 3  \* declared positionals
MaxCount == 2       \* largest finite min / max of a trailing declaration
MaxFree == 3        \* free arguments handed to a direct call of parse
MaxArgv == 2        \* arguments on the command line of a run

USIZE_MAX == 2147483647  \* usize::MAX, the "unbounded" max of a trailing declaration

Names == {"a", "b"}
Descriptions == {"d"}
TrailingNames == {"t"}
Mins == 0..MaxCount
Maxes == (1..MaxCount) \cup {USIZE_MAX}
FreeValues == {"x", "y"}
Tokens == {"--help", "-h", "--version", "--bogus"} \cup FreeValues
ManPages == {<<"page", "8">>}
MainCodes == {-1, 0, 1, 2, 42}
program_name == "prog"

SeqsUpTo(S, n) == UNION {[1..k -> S] : k \in 0..n}

None == <<>>
Some(v) == <<v>>
IsSome(o) == o # <<>>
Unwrap(o) == o[1]

Str(s) == IF s = "" THEN <<>> ELSE <<s>>

\* The grave accent (U+0060), which the lexer of TLA+ does not accept in a string.
BACKTICK == "U+0060"

EmptyMap == [k \in {} |-> ""]

-----------------------------------------------------------------------------
(* src/errors.rs *)

UsageError(message) == [type |-> "UsageError", message |-> message]

-----------------------------------------------------------------------------
(* src/args.rs: Arguments::parse *)

Ok(positional, trailing) ==
    [kind |-> "Ok", positional |-> positional, trailing |-> trailing, err |-> None]
Err(e) ==
    [kind |-> "Err", positional |-> EmptyMap, trailing |-> <<>>, err |-> Some(e)]
Panic ==
    [kind |-> "Panic", positional |-> EmptyMap, trailing |-> <<>>, err |-> None]

\* parse_trailing without the check against max.
parse_trailing_no_max(tspec, positional, iter) ==
    IF IsSome(tspec)
    THEN LET name == Unwrap(tspec)[1]
             min == Unwrap(tspec)[2]
         IN  IF Len(iter) < min
             THEN IF min = 1
                  THEN Err(UsageError(<<"Trailing argument ", BACKTICK>> \o Str(name)
                                      \o <<BACKTICK, " requires at least 1 value">>))
                  ELSE Err(UsageError(<<"Trailing argument ", BACKTICK>> \o Str(name)
                                      \o <<BACKTICK, " requires at least ", ToString(min), " values">>))
             ELSE Ok(positional, iter)
    ELSE IF iter # <<>>
         THEN Err(UsageError(<<"Too many arguments">>))
         ELSE Ok(positional, <<>>)

\* parse_trailing with the check against min off by one (<= for <).
parse_trailing_min_inclusive(tspec, positional, iter) ==
    IF IsSome(tspec)
    THEN LET name == Unwrap(tspec)[1]
             min == Unwrap(tspec)[2]
             max == Unwrap(tspec)[3]
         IN  IF Len(iter) <= min
             THEN IF min = 1
                  THEN Err(UsageError(<<"Trailing argument ", BACKTICK>> \o Str(name)
                                      \o <<BACKTICK, " requires at least 1 value">>))
                  ELSE Err(UsageError(<<"Trailing argument ", BACKTICK>> \o Str(name)
                                      \o <<BACKTICK, " requires at least ", ToString(min), " values">>))
             ELSE IF Len(iter) > max
             THEN Err(UsageError(<<"Too many arguments">>))
             ELSE Ok(positional, iter)
    ELSE IF iter # <<>>
         THEN Err(UsageError(<<"Too many arguments">>))
         ELSE Ok(positional, <<>>)

\* parse_trailing without the singular form of the message for min == 1.
parse_trailing_always_plural(tspec, positional, iter) ==
    IF IsSome(tspec)
    THEN LET name == Unwrap(tspec)[1]
             min == Unwrap(tspec)[2]
             max == Unwrap(tspec)[3]
         IN  IF Len(iter) < min
             THEN Err(UsageError(<<"Trailing argument ", BACKTICK>> \o Str(name)
                                 \o <<BACKTICK, " requires at least ", ToString(min), " values">>))
             ELSE IF Len(iter) > max
             THEN Err(UsageError(<<"Too many arguments">>))
             ELSE Ok(positional, iter)
    ELSE IF iter # <<>>
         THEN Err(UsageError(<<"Too many arguments">>))
         ELSE Ok(positional, <<>>)

\* parse_trailing collecting the leftover arguments after skipping the first
\* of them (iter.skip(1).collect()).
parse_trailing_skip_one(tspec, positional, iter) ==
    IF IsSome(tspec)
    THEN LET name == Unwrap(tspec)[1]
             min == Unwrap(tspec)[2]
             max == Unwrap(tspec)[3]
             trailing == IF iter = <<>> THEN <<>> ELSE Tail(iter)
         IN  IF Len(trailing) < min
             THEN IF min = 1
                  THEN Err(UsageError(<<"Trailing argument ", BACKTICK>> \o Str(name)
                                      \o <<BACKTICK, " requires at least 1 value">>))
                  ELSE Err(UsageError(<<"Trailing argument ", BACKTICK>> \o Str(name)
                                      \o <<BACKTICK, " requires at least ", ToString(min), " values">>))
             ELSE IF Len(trailing) > max
             THEN Err(UsageError(<<"Too many arguments">>))
             ELSE Ok(positional, trailing)
    ELSE IF iter # <<>>
         THEN Err(UsageError(<<"Too many arguments">>))
         ELSE Ok(positional, <<>>)

\* The validation of the leftover arguments, once the loop over positional_spec
\* has bound positional and left iter.
parse_trailing(tspec, positional, iter) ==
    IF IsSome(tspec)
    THEN LET name == Unwrap(tspec)[1]
             min == Unwrap(tspec)[2]
             max == Unwrap(tspec)[3]
             trailing == iter
         IN  IF Len(trailing) < min
             THEN IF min = 1
                  THEN Err(UsageError(<<"Trailing argument ", BACKTICK>> \o Str(name)
                                      \o <<BACKTICK, " requires at least 1 value">>))
                  ELSE Err(UsageError(<<"Trailing argument ", BACKTICK>> \o Str(name)
                                      \o <<BACKTICK, " requires at least ", ToString(min), " values">>))
             ELSE IF Len(trailing) > max
             THEN Err(UsageError(<<"Too many arguments">>))
             ELSE Ok(positional, trailing)
    ELSE IF iter # <<>>
         THEN Err(UsageError(<<"Too many arguments">>))
         ELSE Ok(positional, <<>>)

\* parse_loop taking the values from the back of the free arguments.
RECURSIVE parse_loop_pop_back(_, _, _, _)
parse_loop_pop_back(pspec, tspec, positional, iter) ==
    IF pspec = <<>>
    THEN parse_trailing(tspec, positional, iter)
    ELSE LET name == Head(pspec)[1] IN
         IF iter = <<>>
         THEN Err(UsageError(<<"Required argument ", BACKTICK>> \o Str(name) \o <<BACKTICK, " not provided">>))
         ELSE IF name \in DOMAIN positional
              THEN Panic
              ELSE parse_loop_pop_back(Tail(pspec), tspec,
                                       positional @@ (name :> iter[Len(iter)]),
                                       SubSeq(iter, 1, Len(iter) - 1))

\* parse_loop leaving a positional without a value unbound instead of failing.
RECURSIVE parse_loop_skip_missing(_, _, _, _)
parse_loop_skip_missing(pspec, tspec, positional, iter) ==
    IF pspec = <<>>
    THEN parse_trailing(tspec, positional, iter)
    ELSE LET name == Head(pspec)[1] IN
         IF iter = <<>>
         THEN parse_loop_skip_missing(Tail(pspec), tspec, positional, iter)
         ELSE IF name \in DOMAIN positional
              THEN Panic
              ELSE parse_loop_skip_missing(Tail(pspec), tspec,
                                           positional @@ (name :> Head(iter)), Tail(iter))

\* parse_loop naming the missing positional without quoting it.
RECURSIVE parse_loop_unquoted(_, _, _, _)
parse_loop_unquoted(pspec, tspec, positional, iter) ==
    IF pspec = <<>>
    THEN parse_trailing(tspec, positional, iter)
    ELSE LET name == Head(pspec)[1] IN
         IF iter = <<>>
         THEN Err(UsageError(<<"Required argument ">> \o Str(name) \o <<" not provided">>))
         ELSE IF name \in DOMAIN positional
              THEN Panic
              ELSE parse_loop_unquoted(Tail(pspec), tspec,
                                       positional @@ (name :> Head(iter)), Tail(iter))

\* parse_loop without the assertion: HashMap::insert replaces the value of a
\* name that is already bound.
RECURSIVE parse_loop_overwrite(_, _, _, _)
parse_loop_overwrite(pspec, tspec, positional, iter) ==
    IF pspec = <<>>
    THEN parse_trailing(tspec, positional, iter)
    ELSE LET name == Head(pspec)[1] IN
         IF iter = <<>>
         THEN Err(UsageError(<<"Required argument ", BACKTICK>> \o Str(name) \o <<BACKTICK, " not provided">>))
         ELSE parse_loop_overwrite(Tail(pspec), tspec,
                                   (name :> Head(iter)) @@ positional, Tail(iter))

\* The loop over positional_spec: pspec is what is left of it, iter what is
\* left of the free arguments, positional the map built so far.
RECURSIVE parse_loop(_, _, _, _)
parse_loop(pspec, tspec, positional, iter) ==
    IF pspec = <<>>
    THEN parse_trailing(tspec, positional, iter)
    ELSE LET name == Head(pspec)[1] IN
         IF iter = <<>>
         THEN Err(UsageError(<<"Required argument ", BACKTICK>> \o Str(name) \o <<BACKTICK, " not provided">>))
         ELSE IF name \in DOMAIN positional
              THEN Panic  \* assert!(previous.is_none())
              ELSE parse_loop(Tail(pspec), tspec,
                              positional @@ (name :> Head(iter)), Tail(iter))

parse(pspec, tspec, free) == parse_loop(pspec, tspec, EmptyMap, free)

-----------------------------------------------------------------------------
(* src/args.rs: Arguments::brief *)

trailing_brief(name, min, max) ==
    CASE min = 0 /\ max = 1 -> <<"[">> \o Str(name) \o <<"]">>
      [] min = 0 /\ max = USIZE_MAX -> <<"[">> \o Str(name) \o <<"1 .. ">> \o Str(name) \o <<"N]">>
      [] min = 1 /\ max = USIZE_MAX -> Str(name) \o <<"1 [.. ">> \o Str(name) \o <<"N]">>
      [] OTHER -> Str(name) \o <<ToString(min), " .. ">> \o Str(name) \o <<ToString(max)>>

RECURSIVE join(_)
join(pspec) ==
    IF pspec = <<>> THEN <<>>
    ELSE IF Len(pspec) = 1 THEN Str(Head(pspec)[1])
    ELSE Str(Head(pspec)[1]) \o <<" ">> \o join(Tail(pspec))

brief(pspec, tspec) ==
    LET spec == join(pspec) IN
    IF IsSome(tspec)
    THEN (IF spec # <<>> THEN spec \o <<" ">> ELSE spec)
         \o trailing_brief(Unwrap(tspec)[1], Unwrap(tspec)[2], Unwrap(tspec)[3])
    ELSE spec

-----------------------------------------------------------------------------
(* Texts whose layout matters (src/args.rs: wrap, format_two_columns,       *)
(* Arguments::usage) are sequences of characters, one string per character. *)

NL == "\n"

COL2_START == 24
COL2_WIDTH == 54

\* " ".repeat(n)
Spaces(n) == [i \in 1..n |-> " "]

\* The characters of the strings the model names as a whole: the fragments
\* of trailing_brief and the usize::MAX of the model; every other string of
\* the model (a name, a description, a digit) is one character, or none.
Chars(s) ==
    CASE s = "" -> <<>>
      [] s = "1 .. " -> <<"1", " ", ".", ".", " ">>
      [] s = "N]" -> <<"N", "]">>
      [] s = "1 [.. " -> <<"1", " ", "[", ".", ".", " ">>
      [] s = " .. " -> <<" ", ".", ".", " ">>
      [] s = "2147483647" -> <<"2", "1", "4", "7", "4", "8", "3", "6", "4", "7">>
      [] OTHER -> <<s>>

\* The text of a sequence of fragments.
RECURSIVE Flatten(_)
Flatten(fragments) ==
    IF fragments = <<>> THEN <<>>
    ELSE Chars(Head(fragments)) \o Flatten(Tail(fragments))

\* unwrapped.split(' '): the words between the spaces, empty ones included;
\* word is the part of the current word already read.
RECURSIVE split(_, _)
split(s, word) ==
    IF s = <<>> THEN <<word>>
    ELSE IF Head(s) = " " THEN <<word>> \o split(Tail(s), <<>>)
    ELSE split(Tail(s), Append(word, Head(s)))

\* The loop of wrap over the words that are left.
RECURSIVE wrap_loop(_, _, _, _, _)
wrap_loop(words, pad_width, max_width, text, len) ==
    IF words = <<>> THEN text
    ELSE LET word == Head(words) IN
         IF len = 0
         THEN wrap_loop(Tail(words), pad_width, max_width, text \o word, len + Len(word))
         ELSE IF len + Len(word) + 1 > max_width
              THEN wrap_loop(Tail(words), pad_width, max_width,
                             text \o <<NL>> \o Spaces(pad_width) \o word, Len(word))
              ELSE wrap_loop(Tail(words), pad_width, max_width,
                             text \o <<" ">> \o word, len + 1 + Len(word))

wrap(unwrapped, pad_width, max_width) ==
    wrap_loop(split(unwrapped, <<>>), pad_width, max_width, <<>>, 0)

\* format_two_columns padding the first column also when it is start2 long.
format_two_columns_pad_on_equal(col1, col2, start2, width2) ==
    (IF Len(col1) <= start2
     THEN col1 \o Spaces(start2 - Len(col1))
     ELSE col1 \o <<NL>> \o Spaces(start2))
    \o wrap(col2, start2, width2)

format_two_columns(col1, col2, start2, width2) ==
    (IF Len(col1) < start2
     THEN col1 \o Spaces(start2 - Len(col1))
     ELSE col1 \o <<NL>> \o Spaces(start2))
    \o wrap(col2, start2, width2)

\* The rows of Arguments::usage for the positional arguments.
RECURSIVE usage_positional(_)
usage_positional(pspec) ==
    IF pspec = <<>> THEN <<>>
    ELSE format_two_columns(Spaces(4) \o Chars(Head(pspec)[1]), Chars(Head(pspec)[2]),
                            COL2_START, COL2_WIDTH)
         \o <<NL>> \o usage_positional(Tail(pspec))

\* usage returning the empty text as soon as one of the two specs is empty.
usage_empty_without_both(pspec, tspec) ==
    IF pspec = <<>> \/ tspec = None
    THEN <<>>
    ELSE <<"A", "r", "g", "u", "m", "e", "n", "t", "s", ":", NL>>
         \o usage_positional(pspec)
         \o format_two_columns(
                Spaces(4) \o Flatten(trailing_brief(Unwrap(tspec)[1], Unwrap(tspec)[2],
                                                    Unwrap(tspec)[3])),
                Chars(Unwrap(tspec)[4]), COL2_START, COL2_WIDTH) \o <<NL>>

usage(pspec, tspec) ==
    IF pspec = <<>> /\ tspec = None
    THEN <<>>
    ELSE <<"A", "r", "g", "u", "m", "e", "n", "t", "s", ":", NL>>
         \o usage_positional(pspec)
         \o (IF IsSome(tspec)
             THEN format_two_columns(
                      Spaces(4) \o Flatten(trailing_brief(Unwrap(tspec)[1], Unwrap(tspec)[2],
                                                          Unwrap(tspec)[3])),
                      Chars(Unwrap(tspec)[4]), COL2_START, COL2_WIDTH) \o <<NL>>
             ELSE <<>>)

-----------------------------------------------------------------------------
(* getopts::Options::parse as Builder::new configures it (src/lib.rs): the   *)
(* two flags "-h/--help" and "--version", both optional and without value.   *)
(* A token that starts with "-" and is none of them is an unrecognized       *)
(* option; a flag given twice is a duplicated option; the rest is free.      *)

Fail(message) == [type |-> "getopts::Fail", message |-> message]

OptsOk(help, version, free) ==
    [kind |-> "Ok", help |-> help, version |-> version, free |-> free, err |-> None]
OptsErr(e) ==
    [kind |-> "Err", help |-> 0, version |-> 0, free |-> <<>>, err |-> Some(e)]

RECURSIVE opts_scan(_, _, _, _)
opts_scan(args, help, version, free) ==
    IF args = <<>>
    THEN IF help > 1 THEN OptsErr(Fail(<<"Option 'help' given more than once">>))
         ELSE IF version > 1 THEN OptsErr(Fail(<<"Option 'version' given more than once">>))
         ELSE OptsOk(help, version, free)
    ELSE LET cur == Head(args) IN
         CASE cur \in {"--help", "-h"} -> opts_scan(Tail(args), help + 1, version, free)
           [] cur = "--version" -> opts_scan(Tail(args), help, version + 1, free)
           [] cur = "--bogus" -> OptsErr(Fail(<<"Unrecognized option: 'bogus'">>))
           [] OTHER -> opts_scan(Tail(args), help, version, Append(free, cur))

opts_parse(args) == opts_scan(args, 0, 0, <<>>)

opt_present(m, name) ==
    CASE name = "help" -> m.help > 0
      [] name = "version" -> m.version > 0
      [] OTHER -> FALSE

-----------------------------------------------------------------------------
(* src/run.rs *)

Printed(what, text) == [print |-> what, text |-> text]

\* help(): the options block of getopts under the synthesized banner, then
\* the arguments block, which args.usage() renders.  extra_help, bugs and
\* homepage are None, as Builder::new leaves them.
help(pspec, tspec) ==
    LET args_usage == brief(pspec, tspec)
        banner == <<"Usage: ", program_name, " [options]">>
                  \o (IF args_usage # <<>> THEN <<" ">> \o args_usage ELSE <<>>)
    IN  <<Printed("opts.usage", banner)>>
        \o (IF args_usage # <<>> THEN <<Printed("args.usage", usage(pspec, tspec))>> ELSE <<>>)

\* version(): copyright and license are None.
version == <<Printed("version", <<"Prog", " ", "0.0.0">>)>>

\* print_usage_error with the page and the section of the manual swapped.
print_usage_error_page_first(mp, e) ==
    << <<"Usage error: ">> \o e.message,
       IF IsSome(mp)
       THEN <<"Type ", BACKTICK, program_name, " --help", BACKTICK, " or ", BACKTICK,
              "man ", Unwrap(mp)[1], " ", Unwrap(mp)[2], BACKTICK, " for more information">>
       ELSE <<"Type ", BACKTICK, program_name, " --help", BACKTICK, " for more information">> >>

print_usage_error(mp, e) ==
    << <<"Usage error: ">> \o e.message,
       IF IsSome(mp)
       THEN <<"Type ", BACKTICK, program_name, " --help", BACKTICK, " or ", BACKTICK,
              "man ", Unwrap(mp)[2], " ", Unwrap(mp)[1], BACKTICK, " for more information">>
       ELSE <<"Type ", BACKTICK, program_name, " --help", BACKTICK, " for more information">> >>

\* standard_flag looking at the version flag before the help flag.
standard_flag_version_first(m) ==
    IF opt_present(m, "version") THEN "version"
    ELSE IF opt_present(m, "help") THEN "help"
    ELSE "none"

\* standard_flag without the check of the version flag.
standard_flag_no_version(m) ==
    IF opt_present(m, "help") THEN "help" ELSE "none"

\* pre_run: which of the two standard flags ends the run, help first.
standard_flag(m) ==
    IF opt_present(m, "help") THEN "help"
    ELSE IF opt_present(m, "version") THEN "version"
    ELSE "none"

\* handle_error without the downcast to getopts::Fail.
handle_error_fail_as_other(mp, e) ==
    IF e.type = "UsageError"
    THEN [lines |-> print_usage_error(mp, e), code |-> 2]
    ELSE [lines |-> << <<program_name, ": ">> \o e.message >>, code |-> 1]

\* handle_error(): the lines written to stderr and the exit status.
handle_error(mp, e) ==
    IF e.type = "UsageError"
    THEN [lines |-> print_usage_error(mp, e), code |-> 2]
    ELSE IF e.type = "getopts::Fail"
    THEN [lines |-> print_usage_error(mp, e), code |-> 2]
    ELSE [lines |-> << <<program_name, ": ">> \o e.message >>, code |-> 1]

-----------------------------------------------------------------------------
(* The application's main: any exit status, or any error. *)

MainOk(code) == [kind |-> "Ok", code |-> code, err |-> None]
MainErr(e) == [kind |-> "Err", code |-> 0, err |-> Some(e)]

MainErrors ==
    {UsageError(<<"bad input">>), Fail(<<"bad option">>),
     [type |-> "other", message |-> <<"failed">>]}

MainOutcomes == {MainOk(c) : c \in MainCodes} \cup {MainErr(e) : e \in MainErrors}

\* run_match_main taking a non-zero status of main for a failure.
run_match_main_nonzero_is_error(mp, outcome) ==
    IF outcome.kind = "Ok"
    THEN IF outcome.code = 0
         THEN [lines |-> <<>>, code |-> 0]
         ELSE [lines |-> << <<program_name, ": ">> \o <<ToString(outcome.code)>> >>, code |-> 1]
    ELSE handle_error(mp, Unwrap(outcome.err))

\* run_match_main reporting every error of main as an application error.
run_match_main_error_is_other(mp, outcome) ==
    IF outcome.kind = "Ok"
    THEN [lines |-> <<>>, code |-> outcome.code]
    ELSE [lines |-> << <<program_name, ": ">> \o Unwrap(outcome.err).message >>, code |-> 1]

\* Builder::run: what the outcome of main becomes.
run_match_main(mp, outcome) ==
    IF outcome.kind = "Ok"
    THEN [lines |-> <<>>, code |-> outcome.code]
    ELSE handle_error(mp, Unwrap(outcome.err))

-----------------------------------------------------------------------------
(* State machine. *)

Init ==
    /\ positional_spec = <<>>
    /\ trailing_spec = None
    /\ manpage = None
    /\ env_args \in SeqsUpTo(Tokens, MaxArgv)
    /\ pc = "Building"
    /\ opt_matches = None
    /\ free_in = None
    /\ parsed = None
    /\ matches = None
    /\ main_calls = 0
    /\ main_result = None
    /\ stdout = <<>>
    /\ stderr = <<>>
    /\ exit_code = None
    /\ error = None
    /\ steps = <<>>
    /\ call = None

\* Arguments::positional without the assertion on trailing_spec.
positional_after_trailing(name, description) ==
    /\ pc = "Building"
    /\ Len(positional_spec) < MaxPositional
    /\ positional_spec' = Append(positional_spec, <<name, description>>)
    /\ UNCHANGED <<trailing_spec, manpage, env_args, pc, opt_matches, free_in, parsed, matches,
                   main_calls, main_result, stdout, stderr, exit_code, error, steps, call>>

\* Arguments::positional (Builder::posarg)
positional(name, description) ==
    /\ pc = "Building"
    /\ Len(positional_spec) < MaxPositional
    /\ IF trailing_spec = None
       THEN /\ positional_spec' = Append(positional_spec, <<name, description>>)
            /\ pc' = pc
       ELSE /\ pc' = "Panicked"
            /\ UNCHANGED positional_spec
    /\ UNCHANGED <<trailing_spec, manpage, env_args, opt_matches, free_in, parsed, matches,
                   main_calls, main_result, stdout, stderr, exit_code, error, steps, call>>

\* Arguments::trailing (Builder::trailarg)
trailing(name, min, max, description) ==
    /\ pc = "Building"
    /\ IF trailing_spec = None
       THEN /\ trailing_spec' = Some(<<name, min, max, description>>)
            /\ pc' = pc
       ELSE /\ pc' = "Panicked"
            /\ UNCHANGED trailing_spec
    /\ UNCHANGED <<positional_spec, manpage, env_args, opt_matches, free_in, parsed, matches,
                   main_calls, main_result, stdout, stderr, exit_code, error, steps, call>>

\* Builder::manpage
set_manpage(page, section) ==
    /\ pc = "Building"
    /\ manpage = None
    /\ manpage' = Some(<<page, section>>)
    /\ UNCHANGED <<positional_spec, trailing_spec, env_args, pc, opt_matches, free_in, parsed,
                   matches, main_calls, main_result, stdout, stderr, exit_code, error, steps, call>>

\* Builder::run, Err(e) => run::handle_error(&self.app, e)
ErrorExit(e) ==
    /\ stderr' = stderr \o handle_error(manpage, e).lines
    /\ exit_code' = Some(handle_error(manpage, e).code)
    /\ error' = Some(e)
    /\ pc' = "ErrorExit"

\* Builder::run enters pre_run: opts.parse(env_args)?
ParseOptions ==
    /\ pc = "Building"
    /\ steps' = Append(steps, "opts.parse")
    /\ LET r == opts_parse(env_args) IN
       IF r.kind = "Err"
       THEN /\ ErrorExit(Unwrap(r.err))
            /\ UNCHANGED <<opt_matches, stdout>>
       ELSE /\ opt_matches' = Some(r)
            /\ pc' = "CheckingStandardFlags"
            /\ UNCHANGED <<stdout, stderr, exit_code, error>>
    /\ UNCHANGED <<positional_spec, trailing_spec, manpage, env_args, free_in, parsed, matches,
                   main_calls, main_result, call>>

\* CheckStandardFlags without the return after the help: a run given both
\* flags goes on to the version.
CheckStandardFlags_help_falls_through ==
    /\ pc = "CheckingStandardFlags"
    /\ CASE standard_flag(Unwrap(opt_matches)) = "help" ->
              /\ stdout' = stdout \o help(positional_spec, trailing_spec)
                           \o (IF opt_present(Unwrap(opt_matches), "version")
                               THEN version ELSE <<>>)
              /\ steps' = steps \o <<"flags", "help">>
              /\ exit_code' = Some(0)
              /\ pc' = "Done"
         [] standard_flag(Unwrap(opt_matches)) = "version" ->
              /\ stdout' = stdout \o version
              /\ steps' = steps \o <<"flags", "version">>
              /\ exit_code' = Some(0)
              /\ pc' = "Done"
         [] OTHER ->
              /\ steps' = Append(steps, "flags")
              /\ pc' = "ValidatingArguments"
              /\ UNCHANGED <<stdout, exit_code>>
    /\ UNCHANGED <<positional_spec, trailing_spec, manpage, env_args, opt_matches, free_in,
                   parsed, matches, main_calls, main_result, stderr, error, call>>

\* pre_run: the help and version flags; Builder::run, Ok(None) => 0
CheckStandardFlags ==
    /\ pc = "CheckingStandardFlags"
    /\ CASE standard_flag(Unwrap(opt_matches)) = "help" ->
              /\ stdout' = stdout \o help(positional_spec, trailing_spec)
              /\ steps' = steps \o <<"flags", "help">>
              /\ exit_code' = Some(0)
              /\ pc' = "Done"
         [] standard_flag(Unwrap(opt_matches)) = "version" ->
              /\ stdout' = stdout \o version
              /\ steps' = steps \o <<"flags", "version">>
              /\ exit_code' = Some(0)
              /\ pc' = "Done"
         [] OTHER ->
              /\ steps' = Append(steps, "flags")
              /\ pc' = "ValidatingArguments"
              /\ UNCHANGED <<stdout, exit_code>>
    /\ UNCHANGED <<positional_spec, trailing_spec, manpage, env_args, opt_matches, free_in,
                   parsed, matches, main_calls, main_result, stderr, error, call>>

\* pre_run: args.parse(opt_matches.free.split_off(0))? and Ok(Some(Matches {..}))
ValidateArguments ==
    /\ pc = "ValidatingArguments"
    /\ steps' = Append(steps, "args.parse")
    /\ LET free == Unwrap(opt_matches).free
           r == parse(positional_spec, trailing_spec, free)
       IN  /\ free_in' = Some(free)
           /\ parsed' = Some(r)
           /\ opt_matches' = Some([Unwrap(opt_matches) EXCEPT !.free = <<>>])
           /\ CASE r.kind = "Err" ->
                     /\ ErrorExit(Unwrap(r.err))
                     /\ UNCHANGED matches
                [] r.kind = "Panic" ->
                     /\ pc' = "Panicked"
                     /\ UNCHANGED <<matches, stderr, exit_code, error>>
                [] OTHER ->
                     /\ matches' = Some([program_name |-> program_name,
                                         opts |-> Unwrap(opt_matches'),
                                         args |-> [positional |-> r.positional,
                                                   trailing |-> r.trailing]])
                     /\ pc' = "Bound"
                     /\ UNCHANGED <<stderr, exit_code, error>>
    /\ UNCHANGED <<positional_spec, trailing_spec, manpage, env_args, main_calls, main_result,
                   stdout, call>>

\* Builder::run, Ok(Some(matches)) => match main(matches)
InvokeMain ==
    /\ pc = "Bound"
    /\ main_calls' = main_calls + 1
    /\ steps' = Append(steps, "main")
    /\ pc' = "Running"
    /\ UNCHANGED <<positional_spec, trailing_spec, manpage, env_args, opt_matches, free_in,
                   parsed, matches, main_result, stdout, stderr, exit_code, error, call>>

\* MainReturns taking an error of main for the end of a successful run.
MainReturns_error_is_done(outcome) ==
    /\ pc = "Running"
    /\ main_result' = Some(outcome)
    /\ exit_code' = Some(IF outcome.kind = "Ok" THEN outcome.code ELSE 1)
    /\ error' = outcome.err
    /\ pc' = "Done"
    /\ UNCHANGED <<positional_spec, trailing_spec, manpage, env_args, opt_matches, free_in,
                   parsed, matches, main_calls, stdout, stderr, steps, call>>

\* Builder::run, Ok(code) => code and Err(e) => run::handle_error(&self.app, e)
MainReturns(outcome) ==
    /\ pc = "Running"
    /\ main_result' = Some(outcome)
    /\ stderr' = stderr \o run_match_main(manpage, outcome).lines
    /\ exit_code' = Some(run_match_main(manpage, outcome).code)
    /\ error' = outcome.err
    /\ pc' = IF outcome.kind = "Ok" THEN "Done" ELSE "ErrorExit"
    /\ UNCHANGED <<positional_spec, trailing_spec, manpage, env_args, opt_matches, free_in,
                   parsed, matches, main_calls, stdout, steps, call>>

Next ==
    \/ \E name \in Names, description \in Descriptions : positional(name, description)
    \/ \E name \in TrailingNames, min \in Mins, max \in Maxes, description \in Descriptions :
           trailing(name, min, max, description)
    \/ \E mp \in ManPages : set_manpage(mp[1], mp[2])
    \/ ParseOptions
    \/ CheckStandardFlags
    \/ ValidateArguments
    \/ InvokeMain
    \/ \E outcome \in MainOutcomes : MainReturns(outcome)

Spec == Init /\ [][Next]_vars

-----------------------------------------------------------------------------
(* A direct call of Arguments::parse on the registry, as the unit tests of  *)
(* src/args.rs make it.                                                      *)

InitParse == Init /\ env_args = <<>>

CallParse(free) ==
    /\ pc = "Building"
    /\ free_in' = Some(free)
    /\ parsed' = Some(parse(positional_spec, trailing_spec, free))
    /\ steps' = Append(steps, "args.parse")
    /\ pc' = IF parse(positional_spec, trailing_spec, free).kind = "Panic"
             THEN "Panicked" ELSE "Parsed"
    /\ UNCHANGED <<positional_spec, trailing_spec, manpage, env_args, opt_matches, matches,
                   main_calls, main_result, stdout, stderr, exit_code, error, call>>

NextParse ==
    \/ \E name \in Names, description \in Descriptions : positional(name, description)
    \/ \E name \in TrailingNames, min \in Mins, max \in Maxes, description \in Descriptions :
           trailing(name, min, max, description)
    \/ \E free \in SeqsUpTo(FreeValues, MaxFree) : CallParse(free)

SpecParse == InitParse /\ [][NextParse]_vars

-----------------------------------------------------------------------------
(* Direct calls of Arguments::brief and Arguments::usage on the registry,   *)
(* as the unit tests of src/args.rs make them.  A declared name may be the  *)
(* empty string.                                                             *)

UsageNames == {"", "a", "b"}

Called(fn, args, ret) == Some([fn |-> fn, args |-> args, ret |-> ret])

CallBrief ==
    /\ pc = "Building"
    /\ call' = Called("brief", <<>>, Flatten(brief(positional_spec, trailing_spec)))
    /\ pc' = "Called"
    /\ UNCHANGED <<positional_spec, trailing_spec, manpage, env_args, opt_matches, free_in,
                   parsed, matches, main_calls, main_result, stdout, stderr, exit_code, error,
                   steps>>

CallUsage ==
    /\ pc = "Building"
    /\ call' = Called("usage", <<>>, usage(positional_spec, trailing_spec))
    /\ pc' = "Called"
    /\ UNCHANGED <<positional_spec, trailing_spec, manpage, env_args, opt_matches, free_in,
                   parsed, matches, main_calls, main_result, stdout, stderr, exit_code, error,
                   steps>>

NextUsage ==
    \/ \E name \in UsageNames, description \in Descriptions : positional(name, description)
    \/ \E name \in TrailingNames, min \in Mins, max \in Maxes, description \in Descriptions :
           trailing(name, min, max, description)
    \/ CallBrief
    \/ CallUsage

SpecUsage == InitParse /\ [][NextUsage]_vars

-----------------------------------------------------------------------------
(* Direct calls of wrap and format_two_columns, as the unit tests of        *)
(* src/args.rs make them.                                                    *)

MaxText == 5   \* characters of a text to wrap
MaxPad == 2    \* pad_width of wrap, start2 of format_two_columns
MaxWidth == 4  \* max_width of wrap, width2 of format_two_columns

Letters == {"a", "b"}
Texts == SeqsUpTo(Letters \cup {" "}, MaxText)
Pads == 0..MaxPad
Widths == 0..MaxWidth
Col1s == {[i \in 1..n |-> "c"] : n \in 0..(MaxPad + 1)}

CallWrap(unwrapped, pad_width, max_width) ==
    /\ pc = "Building"
    /\ call' = Called("wrap", <<unwrapped, pad_width, max_width>>,
                      wrap(unwrapped, pad_width, max_width))
    /\ pc' = "Called"
    /\ UNCHANGED <<positional_spec, trailing_spec, manpage, env_args, opt_matches, free_in,
                   parsed, matches, main_calls, main_result, stdout, stderr, exit_code, error,
                   steps>>

CallFormatTwoColumns(col1, col2, start2, width2) ==
    /\ pc = "Building"
    /\ call' = Called("format_two_columns", <<col1, col2, start2, width2>>,
                      format_two_columns(col1, col2, start2, width2))
    /\ pc' = "Called"
    /\ UNCHANGED <<positional_spec, trailing_spec, manpage, env_args, opt_matches, free_in,
                   parsed, matches, main_calls, main_result, stdout, stderr, exit_code, error,
                   steps>>

NextWrap ==
    \/ /\ pc = "Building"
       /\ \E unwrapped \in Texts, pad_width \in Pads, max_width \in Widths :
              CallWrap(unwrapped, pad_width, max_width)
    \/ /\ pc = "Building"
       /\ \E col1 \in Col1s, col2 \in Texts, start2 \in Pads, width2 \in Widths :
              CallFormatTwoColumns(col1, col2, start2, width2)

SpecWrap == InitParse /\ [][NextWrap]_vars

-----------------------------------------------------------------------------
(* Builder::start: pre_run alone, its Result handed back to the caller as  *)
(* examples/imperative.rs takes it.                                         *)

\* What pre_run returns (kind "Panic": it does not return) and what it printed.
PreRun(kind, value, err, out) == [kind |-> kind, value |-> value, err |-> err, out |-> out]

\* pre_run validating the arguments before it looks at the standard flags.
pre_run_validate_first(pspec, tspec, args) ==
    LET o == opts_parse(args) IN
    IF o.kind = "Err" THEN PreRun("Err", None, o.err, <<>>)
    ELSE LET a == parse(pspec, tspec, o.free) IN
         CASE a.kind = "Err" -> PreRun("Err", None, a.err, <<>>)
           [] a.kind = "Panic" -> PreRun("Panic", None, None, <<>>)
           [] OTHER ->
                IF standard_flag(o) = "help" THEN PreRun("Ok", None, None, help(pspec, tspec))
                ELSE IF standard_flag(o) = "version" THEN PreRun("Ok", None, None, version)
                ELSE PreRun("Ok",
                            Some([program_name |-> program_name,
                                  opts |-> [o EXCEPT !.free = <<>>],
                                  args |-> [positional |-> a.positional,
                                            trailing |-> a.trailing]]),
                            None, <<>>)

pre_run(pspec, tspec, args) ==
    LET o == opts_parse(args) IN
    IF o.kind = "Err" THEN PreRun("Err", None, o.err, <<>>)
    ELSE IF standard_flag(o) = "help" THEN PreRun("Ok", None, None, help(pspec, tspec))
    ELSE IF standard_flag(o) = "version" THEN PreRun("Ok", None, None, version)
    ELSE LET a == parse(pspec, tspec, o.free) IN
         CASE a.kind = "Err" -> PreRun("Err", None, a.err, <<>>)
           [] a.kind = "Panic" -> PreRun("Panic", None, None, <<>>)
           [] OTHER -> PreRun("Ok",
                              Some([program_name |-> program_name,
                                    opts |-> [o EXCEPT !.free = <<>>],
                                    args |-> [positional |-> a.positional,
                                              trailing |-> a.trailing]]),
                              None, <<>>)

\* Builder::start
Start ==
    /\ pc = "Building"
    /\ LET r == pre_run(positional_spec, trailing_spec, env_args) IN
       /\ call' = Called("start", <<>>, [kind |-> r.kind, value |-> r.value, err |-> r.err])
       /\ stdout' = stdout \o r.out
       /\ matches' = r.value
       /\ pc' = IF r.kind = "Panic" THEN "Panicked" ELSE "Started"
    /\ steps' = Append(steps, "start")
    /\ UNCHANGED <<positional_spec, trailing_spec, manpage, env_args, opt_matches, free_in,
                   parsed, main_calls, main_result, stderr, exit_code, error>>

NextStart ==
    \/ \E name \in Names, description \in Descriptions : positional(name, description)
    \/ \E name \in TrailingNames, min \in Mins, max \in Maxes, description \in Descriptions :
           trailing(name, min, max, description)
    \/ Start

SpecStart == Init /\ [][NextStart]_vars

-----------------------------------------------------------------------------
(* Runs of Builder::run that ask for the help, on registries whose declared *)
(* names may be the empty string.                                            *)

InitHelp == Init /\ \E i \in 1..Len(env_args) : env_args[i] \in {"--help", "-h"}

NextHelp ==
    \/ \E name \in UsageNames, description \in Descriptions : positional(name, description)
    \/ \E name \in TrailingNames, min \in Mins, max \in Maxes, description \in Descriptions :
           trailing(name, min, max, description)
    \/ ParseOptions
    \/ CheckStandardFlags

SpecHelp == InitHelp /\ [][NextHelp]_vars

-----------------------------------------------------------------------------
(* Properties of Arguments::parse.  They relate the registry and the free   *)
(* arguments of a call to its outcome, in every state after a call.         *)

DeclaredNames == [i \in 1..Len(positional_spec) |-> positional_spec[i][1]]
Distinct(s) == \A i, j \in 1..Len(s) : i # j => s[i] # s[j]
Free == Unwrap(free_in)
Outcome == Unwrap(parsed)
Leftover == Len(Free) - Len(positional_spec)
TooManyArguments == [type |-> "UsageError", message |-> <<"Too many arguments">>]

\* C1 as stated: with no trailing declaration and exactly one free argument
\* per declared positional, parse succeeds and binds the i-th free argument
\* to the i-th declared name, with no trailing bindings.
C1_Original ==
    (IsSome(parsed) /\ trailing_spec = None /\ Len(Free) = Len(positional_spec))
    => /\ Outcome.kind = "Ok"
       /\ \A i \in 1..Len(positional_spec) : Outcome.positional[DeclaredNames[i]] = Free[i]
       /\ Outcome.trailing = <<>>

\* C1 as amended: the same when the declared names are pairwise distinct;
\* when two declared positionals share a name, parse aborts on its assertion.
C1_Amended ==
    (IsSome(parsed) /\ trailing_spec = None /\ Len(Free) = Len(positional_spec))
    => IF Distinct(DeclaredNames)
       THEN /\ Outcome.kind = "Ok"
            /\ DOMAIN Outcome.positional = {DeclaredNames[i] : i \in 1..Len(positional_spec)}
            /\ \A i \in 1..Len(positional_spec) :
                   Outcome.positional[DeclaredNames[i]] = Free[i]
            /\ Outcome.trailing = <<>>
       ELSE Outcome.kind = "Panic"

C1_Witness ==
    /\ IsSome(parsed) /\ trailing_spec = None
    /\ Len(positional_spec) = 2 /\ Distinct(DeclaredNames)
    /\ Free = <<"x", "y">>
    /\ Outcome.kind = "Ok"
    /\ Outcome.positional[DeclaredNames[1]] = "x"
    /\ Outcome.positional[DeclaredNames[2]] = "y"

RequiredArgumentNotProvided(name) ==
    [type |-> "UsageError",
     message |-> <<"Required argument ", BACKTICK, name, BACKTICK, " not provided">>]

\* C2 as stated: with fewer free arguments than declared positionals, parse
\* returns the usage error that names the positional at position |free|+1.
C2_Original ==
    (IsSome(parsed) /\ Len(Free) < Len(positional_spec))
    => /\ Outcome.kind = "Err"
       /\ Outcome.err = Some(RequiredArgumentNotProvided(DeclaredNames[Len(Free) + 1]))

\* C2 as amended: the same when the first |free| declared names are pairwise
\* distinct; when two of them are equal, parse aborts on its assertion before
\* it reaches the positional left without a value.
C2_Amended ==
    (IsSome(parsed) /\ Len(Free) < Len(positional_spec))
    => IF Distinct(SubSeq(DeclaredNames, 1, Len(Free)))
       THEN /\ Outcome.kind = "Err"
            /\ Outcome.err = Some(RequiredArgumentNotProvided(DeclaredNames[Len(Free) + 1]))
            /\ Outcome.positional = EmptyMap /\ Outcome.trailing = <<>>
       ELSE Outcome.kind = "Panic"

C2_Witness ==
    /\ IsSome(parsed)
    /\ Len(positional_spec) = 2 /\ Len(Free) = 1
    /\ Outcome.kind = "Err"
    /\ Unwrap(Outcome.err).message[3] = DeclaredNames[2]
    /\ DeclaredNames[1] # DeclaredNames[2]

TooManyCase ==
    /\ IsSome(parsed)
    /\ Leftover >= 0
    /\ \/ trailing_spec = None /\ Leftover >= 1
       \/ /\ IsSome(trailing_spec)
          /\ Leftover >= Unwrap(trailing_spec)[2]
          /\ Leftover > Unwrap(trailing_spec)[3]

\* C3 as stated: once every declared positional has taken a free argument,
\* parse returns "Too many arguments" when no trailing declaration exists and
\* an argument is left, or when the number left is at least min and above max.
C3_Original ==
    TooManyCase => (Outcome.kind = "Err" /\ Outcome.err = Some(TooManyArguments))

\* C3 as amended: the same when the declared names are pairwise distinct
\* (parse aborts on its assertion otherwise).
C3_Amended ==
    TooManyCase => IF Distinct(DeclaredNames)
                   THEN Outcome.kind = "Err" /\ Outcome.err = Some(TooManyArguments)
                   ELSE Outcome.kind = "Panic"

C3_Witness ==
    /\ TooManyCase /\ IsSome(trailing_spec) /\ Len(positional_spec) = 1
    /\ Unwrap(trailing_spec)[3] = 1 /\ Leftover = 2
    /\ Outcome.err = Some(TooManyArguments)

TrailingCase == IsSome(parsed) /\ IsSome(trailing_spec) /\ Leftover >= 0
TrailingCounts ==
    /\ (Outcome.kind = "Ok") <=>
           (Unwrap(trailing_spec)[2] <= Leftover /\ Leftover <= Unwrap(trailing_spec)[3])
    /\ Outcome.kind = "Ok" =>
           Outcome.trailing = SubSeq(Free, Len(positional_spec) + 1, Len(Free))
    /\ (Unwrap(trailing_spec)[2] = 0 /\ Unwrap(trailing_spec)[3] = USIZE_MAX)
           => Outcome.kind = "Ok"

\* C4 as stated: with a trailing declaration (min, max) and a free argument for
\* every declared positional, parse succeeds exactly when min <= leftover <= max,
\* and then the trailing bindings are the leftover arguments in order; with
\* (0, unbounded) every leftover count succeeds.
C4_Original == TrailingCase => TrailingCounts

\* C4 as amended: the same when the declared names are pairwise distinct
\* (parse aborts on its assertion otherwise).
C4_Amended ==
    TrailingCase => IF Distinct(DeclaredNames) THEN TrailingCounts
                    ELSE Outcome.kind = "Panic"

C4_Witness ==
    /\ TrailingCase /\ Len(positional_spec) = 1
    /\ Unwrap(trailing_spec)[2] = 1 /\ Unwrap(trailing_spec)[3] = 2
    /\ Free = <<"x", "y", "x">>
    /\ Outcome.kind = "Ok" /\ Outcome.trailing = <<"y", "x">>

AtLeastMessage ==
    LET name == Unwrap(trailing_spec)[1]
        min == Unwrap(trailing_spec)[2]
    IN  IF min = 1
        THEN <<"Trailing argument ", BACKTICK, name, BACKTICK, " requires at least 1 value">>
        ELSE <<"Trailing argument ", BACKTICK, name, BACKTICK,
               " requires at least ", ToString(min), " values">>

\* C5 as stated: with a trailing declaration whose min is above the number of
\* free arguments left after the positionals, parse fails with the usage error
\* "... requires at least 1 value" for min == 1, "... at least {min} values"
\* for every other min.
C5_Original ==
    (/\ IsSome(parsed) /\ IsSome(trailing_spec)
     /\ Unwrap(trailing_spec)[2] > (IF Leftover >= 0 THEN Leftover ELSE 0))
    => /\ Outcome.kind = "Err"
       /\ Outcome.err = Some([type |-> "UsageError", message |-> AtLeastMessage])

\* C5 as amended: the same when every declared positional took a free argument
\* and the declared names are pairwise distinct (otherwise parse reports the
\* missing positional, or aborts on its assertion, before it looks at min).
C5_Amended ==
    (/\ TrailingCase /\ Distinct(DeclaredNames)
     /\ Unwrap(trailing_spec)[2] > Leftover)
    => /\ Outcome.kind = "Err"
       /\ Outcome.err = Some([type |-> "UsageError", message |-> AtLeastMessage])

C5_Witness ==
    /\ TrailingCase /\ Len(positional_spec) = 1
    /\ Unwrap(trailing_spec)[2] = 1 /\ Leftover = 0
    /\ Outcome.kind = "Err"
    /\ Unwrap(Outcome.err).message[Len(Unwrap(Outcome.err).message)] = " requires at least 1 value"

-----------------------------------------------------------------------------
(* Properties of Builder::run. *)

Started == steps # <<>>
Count(tokens) == Cardinality({i \in 1..Len(env_args) : env_args[i] \in tokens})
HelpTokens == {"--help", "-h"}
HelpGiven == Count(HelpTokens) > 0
\* What getopts rejects: an option it does not know, a flag given twice.
BadFlags ==
    \/ Count({"--bogus"}) > 0
    \/ Count(HelpTokens) > 1
    \/ Count({"--version"}) > 1
HelpRendered == stdout # <<>> /\ stdout[1].print = "opts.usage"

\* C6 as stated: a run whose argument vector contains --help or -h renders the
\* help, returns 0, validates no argument and never invokes main, whatever
\* else the vector holds.
C6_Original ==
    (Started /\ HelpGiven)
    => /\ parsed = None
       /\ main_calls = 0
       /\ pc \in {"Done", "ErrorExit"} => (exit_code = Some(0) /\ HelpRendered)

\* C6 as amended: a run in which option parsing succeeds with the help flag
\* present renders the help, returns 0, validates no argument and never
\* invokes main, whatever free arguments and whether or not the version flag
\* are given; a run whose argument vector getopts rejects ends with exit code 2
\* and no help, even when the vector contains --help or -h.
C6_Amended ==
    /\ (IsSome(opt_matches) /\ Unwrap(opt_matches).help > 0)
       => /\ parsed = None
          /\ main_calls = 0
          /\ pc \in {"CheckingStandardFlags", "Done"}
          /\ pc = "Done" => /\ exit_code = Some(0)
                            /\ HelpRendered
                            /\ \A i \in 1..Len(stdout) : stdout[i].print # "version"
                            /\ stderr = <<>>
                            /\ steps = <<"opts.parse", "flags", "help">>
    /\ (Started /\ BadFlags)
       => /\ pc = "ErrorExit" /\ exit_code = Some(2)
          /\ stdout = <<>> /\ parsed = None /\ main_calls = 0

C6_Witness ==
    /\ pc = "Done" /\ HelpGiven /\ HelpRendered /\ exit_code = Some(0)
    /\ Count({"--version"}) = 1
    /\ Len(positional_spec) = 2 /\ trailing_spec = None
    /\ Len(Unwrap(opt_matches).free) = 0

UsageErrorTypes == {"UsageError", "getopts::Fail"}

\* C7: Builder::run returns 2 when option parsing or argument validation
\* fails, 1 when main fails with an error that is no usage error, 0 when the
\* help or the version was displayed; a failure yields no other code.
C7_ExitCodes ==
    /\ (Started /\ BadFlags) => exit_code = Some(2)
    /\ (IsSome(parsed) /\ Outcome.kind = "Err") => exit_code = Some(2)
    /\ (IsSome(main_result) /\ Unwrap(main_result).kind = "Err"
          /\ Unwrap(Unwrap(main_result).err).type \notin UsageErrorTypes)
       => exit_code = Some(1)
    /\ (\E i \in 1..Len(steps) : steps[i] \in {"help", "version"}) => exit_code = Some(0)
    /\ pc = "ErrorExit" => exit_code \in {Some(1), Some(2)}

C7_Witness ==
    /\ pc = "ErrorExit" /\ Count({"--bogus"}) = 1 /\ Count(HelpTokens) = 0
    /\ exit_code = Some(2)

\* C8: when main returns successfully with integer c, Builder::run returns c,
\* whatever its sign, and prints no diagnostic.
C8_CodePassedThrough ==
    (IsSome(main_result) /\ Unwrap(main_result).kind = "Ok")
    => /\ exit_code = Some(Unwrap(main_result).code)
       /\ stderr = <<>>
       /\ pc = "Done"

C8_Witness ==
    /\ IsSome(main_result) /\ Unwrap(main_result).kind = "Ok"
    /\ Unwrap(main_result).code = -1 /\ exit_code = Some(-1)

\* C9: main is invoked at most once; it is invoked exactly when option parsing
\* succeeded, neither standard flag was set and validation succeeded, after
\* these three steps and with the bound Matches; no step is ever repeated.
C9_MainOnce ==
    /\ main_calls <= 1
    /\ \A i, j \in 1..Len(steps) : i # j => steps[i] # steps[j]
    /\ main_calls = 1
       => /\ IsSome(opt_matches)
          /\ Unwrap(opt_matches).help = 0 /\ Unwrap(opt_matches).version = 0
          /\ IsSome(parsed) /\ Outcome.kind = "Ok"
          /\ steps = <<"opts.parse", "flags", "args.parse", "main">>
          /\ IsSome(matches)
          /\ Unwrap(matches).args.positional = Outcome.positional
          /\ Unwrap(matches).args.trailing = Outcome.trailing
          /\ DOMAIN Unwrap(matches).args.positional
                 = {positional_spec[i][1] : i \in 1..Len(positional_spec)}
          /\ Len(Outcome.trailing) = Leftover
    /\ (/\ pc \in {"Running", "Done", "ErrorExit"}
        /\ IsSome(opt_matches)
        /\ Unwrap(opt_matches).help = 0 /\ Unwrap(opt_matches).version = 0
        /\ IsSome(parsed) /\ Outcome.kind = "Ok")
       => main_calls = 1

C9_Witness ==
    /\ main_calls = 1 /\ pc = "ErrorExit"
    /\ Len(positional_spec) = 1 /\ IsSome(trailing_spec)
    /\ Free = <<"x", "y">>

HintLine ==
    IF manpage = None
    THEN <<"Type ", BACKTICK, "prog", " --help", BACKTICK, " for more information">>
    ELSE <<"Type ", BACKTICK, "prog", " --help", BACKTICK, " or ", BACKTICK,
           "man ", "8", " ", "page", BACKTICK, " for more information">>

\* C10: a run that ends in a usage error writes the line "Usage error:
\* <message>" and then the hint line, which names the manual page if one is
\* configured; a run that ends in another error writes the single line
\* "<program name>: <message>".
C10_Diagnostics ==
    pc = "ErrorExit"
    => /\ IsSome(error)
       /\ IF Unwrap(error).type \in UsageErrorTypes
          THEN /\ stderr = << <<"Usage error: ">> \o Unwrap(error).message, HintLine >>
               /\ exit_code = Some(2)
          ELSE /\ stderr = << <<"prog", ": ">> \o Unwrap(error).message >>
               /\ exit_code = Some(1)

C10_Witness ==
    /\ pc = "ErrorExit" /\ IsSome(manpage)
    /\ IsSome(parsed) /\ Outcome.kind = "Err"
    /\ Len(stderr) = 2
    /\ stderr[1] = <<"Usage error: ", "Too many arguments">>

-----------------------------------------------------------------------------
(* Properties of the registry: Arguments::positional, Arguments::trailing. *)

\* A step of a declaration call: under SpecParse every step that is not a call
\* of parse is one.
DeclarationStep == vars' # vars /\ free_in' = free_in

\* C11: the registry holds at most one trailing declaration and no positional
\* is appended once it is set: a call of Arguments::positional or of
\* Arguments::trailing made when a trailing declaration exists aborts, leaves
\* the registry as it was and returns no UsageError; a call made before one
\* exists appends the positional, or sets the trailing declaration, and goes on.
C11_DeclarationOrder ==
    [][DeclarationStep
       => IF IsSome(trailing_spec)
          THEN /\ pc' = "Panicked"
               /\ positional_spec' = positional_spec
               /\ trailing_spec' = trailing_spec
               /\ error' = None /\ parsed' = None /\ stderr' = <<>> /\ exit_code' = None
          ELSE /\ pc' = "Building"
               /\ \/ /\ Len(positional_spec') = Len(positional_spec) + 1
                     /\ SubSeq(positional_spec', 1, Len(positional_spec)) = positional_spec
                     /\ trailing_spec' = None
                  \/ /\ positional_spec' = positional_spec
                     /\ IsSome(trailing_spec')]_vars

C11_Witness ==
    /\ pc = "Panicked" /\ parsed = None
    /\ IsSome(trailing_spec) /\ Len(positional_spec) = 1

-----------------------------------------------------------------------------
(* Properties of Arguments::brief and Arguments::usage. *)

CalledFn(fn) == IsSome(call) /\ Unwrap(call).fn = fn
Ret == Unwrap(call).ret
Arg(i) == Unwrap(call).args[i]

Digit(d) == <<"0", "1", "2", "3", "4", "5", "6", "7", "8", "9">>[d + 1]
RECURSIVE Decimal(_)
Decimal(n) == IF n < 10 THEN <<Digit(n)>> ELSE Append(Decimal(n \div 10), Digit(n % 10))

\* The first n declared names, each followed by a space but the last.
RECURSIVE NamesJoined(_)
NamesJoined(n) ==
    IF n = 0 THEN <<>>
    ELSE IF n = 1 THEN Chars(positional_spec[1][1])
    ELSE NamesJoined(n - 1) \o <<" ">> \o Chars(positional_spec[n][1])

\* The placeholder of the trailing declaration, character by character.
Placeholder ==
    LET name == Chars(Unwrap(trailing_spec)[1])
        min == Unwrap(trailing_spec)[2]
        max == Unwrap(trailing_spec)[3]
    IN  IF min = 0 /\ max = 1 THEN <<"[">> \o name \o <<"]">>
        ELSE IF min = 0 /\ max = USIZE_MAX
        THEN <<"[">> \o name \o <<"1", " ", ".", ".", " ">> \o name \o <<"N", "]">>
        ELSE IF min = 1 /\ max = USIZE_MAX
        THEN name \o <<"1", " ", "[", ".", ".", " ">> \o name \o <<"N", "]">>
        ELSE name \o Decimal(min) \o <<" ", ".", ".", " ">> \o name \o Decimal(max)

\* C12: brief returns the declared names joined by single spaces,
\* then, when a trailing declaration exists, its placeholder, after one
\* separating space if any positional is declared; the placeholder is "[name]"
\* for (0,1), "[name1 .. nameN]" for (0,unbounded), "name1 [.. nameN]" for
\* (1,unbounded) and "name{min} .. name{max}" otherwise; with nothing declared
\* brief returns the empty string.
C12_Original ==
    CalledFn("brief")
    => Ret = NamesJoined(Len(positional_spec))
             \o (IF IsSome(trailing_spec)
                 THEN (IF positional_spec # <<>> THEN <<" ">> ELSE <<>>) \o Placeholder
                 ELSE <<>>)

\* A row of the arguments block: the label and the description in two
\* columns, then a newline.
Row(label, description) ==
    format_two_columns(label, description, COL2_START, COL2_WIDTH) \o <<NL>>

\* The rows of the first n declared positionals.
RECURSIVE PositionalRows(_)
PositionalRows(n) ==
    IF n = 0 THEN <<>>
    ELSE PositionalRows(n - 1)
         \o Row(Spaces(4) \o Chars(positional_spec[n][1]), Chars(positional_spec[n][2]))

\* C13: usage returns the empty string if and only if neither a positional
\* nor a trailing argument is declared; otherwise it returns the line
\* "Arguments:", then one two-column row per declared positional in
\* declaration order, labelled with four spaces and the name, then, if a
\* trailing declaration exists, one row labelled with four spaces and its
\* placeholder; every row ends with a newline.
C13_Usage ==
    CalledFn("usage")
    => /\ (Ret = <<>>) <=> (positional_spec = <<>> /\ trailing_spec = None)
       /\ Ret # <<>>
          => Ret = <<"A", "r", "g", "u", "m", "e", "n", "t", "s", ":", NL>>
                   \o PositionalRows(Len(positional_spec))
                   \o (IF IsSome(trailing_spec)
                       THEN Row(Spaces(4) \o Placeholder, Chars(Unwrap(trailing_spec)[4]))
                       ELSE <<>>)

C13_Witness ==
    /\ CalledFn("usage")
    /\ Len(positional_spec) = 1 /\ IsSome(trailing_spec)
    /\ Ret = <<"A", "r", "g", "u", "m", "e", "n", "t", "s", ":", NL>>
             \o Spaces(4) \o <<"a">> \o Spaces(19) \o <<"d", NL>>
             \o Spaces(4) \o <<"[", "t", "1", " ", ".", ".", " ", "t", "N", "]">>
             \o Spaces(10) \o <<"d", NL>>

-----------------------------------------------------------------------------
(* Properties of wrap and format_two_columns. *)

\* The greedy packing of words: the first word opens the first line; a later
\* word goes on the current line after one space when the line, the space and
\* the word fit in max_width, on a new line after pad_width spaces otherwise.
\* line is the length of the current line without its pad prefix.
RECURSIVE Greedy(_, _, _, _, _, _)
Greedy(words, pad_width, max_width, text, line, first) ==
    IF words = <<>> THEN text
    ELSE LET word == Head(words) IN
         IF first
         THEN Greedy(Tail(words), pad_width, max_width, text \o word, Len(word), FALSE)
         ELSE IF line + 1 + Len(word) <= max_width
              THEN Greedy(Tail(words), pad_width, max_width,
                          text \o <<" ">> \o word, line + 1 + Len(word), FALSE)
              ELSE Greedy(Tail(words), pad_width, max_width,
                          text \o <<NL>> \o Spaces(pad_width) \o word, Len(word), FALSE)

\* The pieces of s between the occurrences of the character sep.
RECURSIVE Pieces(_, _, _)
Pieces(s, sep, piece) ==
    IF s = <<>> THEN <<piece>>
    ELSE IF Head(s) = sep THEN <<piece>> \o Pieces(Tail(s), sep, <<>>)
    ELSE Pieces(Tail(s), sep, Append(piece, Head(s)))

Lines(text) == Pieces(text, NL, <<>>)
NonEmpty(seq) == SelectSeq(seq, LAMBDA w : w # <<>>)
\* The words of a text whose lines are separated by a newline and pad spaces.
WordsOf(text) == NonEmpty(Pieces([i \in 1..Len(text) |-> IF text[i] = NL THEN " " ELSE text[i]],
                                 " ", <<>>))

\* Every line but the first starts with pad spaces; without them a line is at
\* most max wide unless it holds a single word.
LinesFit(text, pad, max) ==
    \A i \in 1..Len(Lines(text)) :
        LET line == Lines(text)[i]
            body == IF i = 1 THEN line ELSE SubSeq(line, pad + 1, Len(line))
        IN  /\ i > 1 => (Len(line) >= pad /\ SubSeq(line, 1, pad) = Spaces(pad))
            /\ Len(body) <= max \/ Len(Pieces(body, " ", <<>>)) = 1

\* C14: wrap packs words greedily: a word is appended to the current line
\* after exactly one space if and only if the length of the line plus one plus
\* the length of the word is at most max_width, and starts a new line prefixed
\* by pad_width spaces otherwise; every line of the output, without its pad
\* prefix, is at most max_width long unless it holds a single word, and the
\* words of the output are the words of the input.
C14_Original ==
    CalledFn("wrap")
    => /\ Ret = Greedy(Pieces(Arg(1), " ", <<>>), Arg(2), Arg(3), <<>>, 0, TRUE)
       /\ LinesFit(Ret, Arg(2), Arg(3))
       /\ WordsOf(Ret) = WordsOf(Arg(1))

\* C15: format_two_columns starts column 2 at offset start2 of its line: a
\* col1 shorter than start2 is padded with spaces to exactly start2 characters
\* and the wrapped col2 follows; a col1 of start2 characters or more is
\* followed by a newline, start2 spaces and the wrapped col2; col2 is wrapped
\* at width2 and every continuation line starts with start2 spaces.
C15_TwoColumns ==
    CalledFn("format_two_columns")
    => LET col1 == Arg(1)
           col2 == Arg(2)
           start2 == Arg(3)
           width2 == Arg(4)
           first == IF Len(col1) < start2 THEN 1 ELSE 2  \* the line column 2 starts on
       IN  /\ Len(col1) < start2
              => /\ SubSeq(Ret, 1, Len(col1)) = col1
                 /\ \A i \in (Len(col1) + 1)..start2 : Ret[i] = " "
                 /\ SubSeq(Ret, start2 + 1, Len(Ret)) = wrap(col2, start2, width2)
           /\ Len(col1) >= start2
              => Ret = col1 \o <<NL>> \o Spaces(start2) \o wrap(col2, start2, width2)
           /\ \A i \in first..Len(Lines(Ret)) :
                  /\ Len(Lines(Ret)[i]) >= start2
                  /\ i > 1 => SubSeq(Lines(Ret)[i], 1, start2) = Spaces(start2)
           /\ LinesFit(SubSeq(Ret, Len(Ret) - Len(wrap(col2, start2, width2)) + 1, Len(Ret)),
                       start2, width2)

C15_Witness ==
    /\ CalledFn("format_two_columns")
    /\ Arg(1) = <<"c", "c">> /\ Arg(2) = <<"a", " ", "b">> /\ Arg(3) = 2 /\ Arg(4) = 1
    /\ Ret = <<"c", "c", NL, " ", " ", "a", NL, " ", " ", "b">>

-----------------------------------------------------------------------------
(* Properties of Builder::start. *)

FreeArgs == SelectSeq(env_args, LAMBDA t : t \in FreeValues)
VersionGiven == Count({"--version"}) > 0
FlagGiven == HelpGiven \/ VersionGiven
StartLeftover == Len(FreeArgs) - Len(positional_spec)
\* The free arguments do not fit the registry.
ValidationFails ==
    \/ StartLeftover < 0
    \/ trailing_spec = None /\ StartLeftover > 0
    \/ /\ IsSome(trailing_spec)
       /\ \/ StartLeftover < Unwrap(trailing_spec)[2]
          \/ StartLeftover > Unwrap(trailing_spec)[3]
\* Two of the positionals that take a free argument share a name.
RepeatedName ==
    ~Distinct(SubSeq(DeclaredNames, 1,
                     IF StartLeftover < 0 THEN Len(FreeArgs) ELSE Len(positional_spec)))

StartRendered ==
    IF HelpGiven THEN HelpRendered
    ELSE stdout = <<[print |-> "version", text |-> <<"Prog", " ", "0.0.0">>]>>

StartReturns ==
    /\ (Ret.kind = "Ok" /\ Ret.value = None) <=> (~BadFlags /\ FlagGiven)
    /\ (~BadFlags /\ FlagGiven) => StartRendered
    /\ (BadFlags \/ (~FlagGiven /\ ValidationFails))
       => /\ Ret.kind = "Err" /\ IsSome(Ret.err) /\ Ret.value = None
          /\ stdout = <<>>
    /\ (~BadFlags /\ ~FlagGiven /\ ~ValidationFails)
       => /\ Ret.kind = "Ok" /\ IsSome(Ret.value)
          /\ DOMAIN Unwrap(Ret.value).args.positional
                 = {DeclaredNames[i] : i \in 1..Len(positional_spec)}
          /\ \A i \in 1..Len(positional_spec) :
                 Unwrap(Ret.value).args.positional[DeclaredNames[i]] = FreeArgs[i]
          /\ Unwrap(Ret.value).args.trailing
                 = SubSeq(FreeArgs, Len(positional_spec) + 1, Len(FreeArgs))
          /\ stdout = <<>>

\* C16 as stated: Builder::start returns Ok(None) exactly when option parsing
\* succeeded and the help or the version flag is present, having rendered the
\* text; it returns Err, with nothing printed to stderr and no exit code, when
\* option parsing or argument validation fails; it returns Ok(Some(Matches))
\* with the bound arguments in every other case.
C16_Original ==
    CalledFn("start") => (StartReturns /\ stderr = <<>> /\ exit_code = None)

\* C16 as amended: the same whenever start returns; it does not return but
\* aborts on the assertion of Arguments::parse exactly when option parsing
\* succeeded, neither standard flag is present and two of the declared
\* positionals that take a free argument share a name.
C16_Amended ==
    CalledFn("start")
    => /\ stderr = <<>> /\ exit_code = None
       /\ IF ~BadFlags /\ ~FlagGiven /\ RepeatedName
          THEN Ret.kind = "Panic" /\ pc = "Panicked" /\ stdout = <<>>
          ELSE StartReturns /\ pc = "Started"

C16_Witness ==
    /\ CalledFn("start")
    /\ Ret.kind = "Err" /\ Ret.err = Some(TooManyArguments)
    /\ Len(positional_spec) = 1 /\ env_args = <<"x", "y">>
    /\ stderr = <<>> /\ exit_code = None

-----------------------------------------------------------------------------
(* Further properties of Arguments::parse. *)

\* parse returned the error of a positional left without a value.
MissingPositional ==
    IsSome(parsed) /\ Outcome.kind = "Err" /\ Len(Free) < Len(positional_spec)

\* C17 as stated: the message of the UsageError for a missing positional is
\* exactly "Required argument '<name>' not provided", the declared name
\* between apostrophes.
C17_Original ==
    MissingPositional
    => Unwrap(Outcome.err).message
           = <<"Required argument ", "'", DeclaredNames[Len(Free) + 1], "'", " not provided">>

\* C17 as amended: the message is exactly "Required argument", a space, the
\* declared name between two grave accents (U+0060), and " not provided".
C17_Amended ==
    MissingPositional
    => /\ Unwrap(Outcome.err).type = "UsageError"
       /\ Unwrap(Outcome.err).message
              = <<"Required argument ", BACKTICK, DeclaredNames[Len(Free) + 1], BACKTICK,
                  " not provided">>

C17_Witness ==
    /\ MissingPositional
    /\ Free = <<>> /\ Len(positional_spec) = 1
    /\ Unwrap(Outcome.err).message = <<"Required argument ", "U+0060", "a", "U+0060", " not provided">>

\* The number of leftover arguments fits the registry.
CountsFit ==
    /\ Leftover >= 0
    /\ IF IsSome(trailing_spec)
       THEN Unwrap(trailing_spec)[2] <= Leftover /\ Leftover <= Unwrap(trailing_spec)[3]
       ELSE Leftover = 0

\* The last declaration that has the name of the i-th one.
LastOf(i) ==
    CHOOSE j \in i..Len(positional_spec) :
        /\ DeclaredNames[j] = DeclaredNames[i]
        /\ \A k \in (j + 1)..Len(positional_spec) : DeclaredNames[k] # DeclaredNames[i]

\* C18 as stated: when two declared positionals share a name and the free
\* arguments are enough, parse neither fails nor aborts, and the value of the
\* later declaration replaces the value of the earlier one, which leaves one
\* binding for the name.
C18_Original ==
    (IsSome(parsed) /\ ~Distinct(DeclaredNames) /\ CountsFit)
    => /\ Outcome.kind = "Ok"
       /\ DOMAIN Outcome.positional = {DeclaredNames[i] : i \in 1..Len(positional_spec)}
       /\ \A i \in 1..Len(positional_spec) :
              Outcome.positional[DeclaredNames[i]] = Free[LastOf(i)]

\* Two of the declared positionals that take a free argument share a name.
RepeatedBoundName ==
    \E i, j \in 1..Len(positional_spec) :
        /\ i < j /\ j <= Len(Free)
        /\ DeclaredNames[i] = DeclaredNames[j]

\* C18 as amended: when two declared positionals share a name and both take a
\* free argument, parse aborts on its assertion: it returns neither a Matches
\* nor a UsageError and no value replaces another; parse aborts in no other
\* case.
C18_Amended ==
    IsSome(parsed)
    => /\ RepeatedBoundName <=> Outcome.kind = "Panic"
       /\ RepeatedBoundName
          => /\ pc = "Panicked"
             /\ Outcome.positional = EmptyMap /\ Outcome.trailing = <<>> /\ Outcome.err = None

C18_Witness ==
    /\ IsSome(parsed) /\ trailing_spec = None
    /\ Len(positional_spec) = 2 /\ DeclaredNames[1] = DeclaredNames[2]
    /\ Free = <<"x", "y">>
    /\ Outcome.kind = "Panic" /\ pc = "Panicked"

\* C19: every trailing declaration the registry holds has min <= max: no
\* sequence of declaration calls leaves a trailing declaration whose max is
\* smaller than its min.
C19_Original ==
    IsSome(trailing_spec) => Unwrap(trailing_spec)[2] <= Unwrap(trailing_spec)[3]

-----------------------------------------------------------------------------
(* The lifecycle of Builder::run.  pc = "Building" is ParsingOptions: the   *)
(* run has not parsed the options yet.                                       *)

\* C20 as stated: ErrorExit is absorbing and is entered only from
\* ParsingOptions, CheckingStandardFlags or ValidatingArguments; a run that
\* has reached Bound or Running never moves to ErrorExit.
C20_Original ==
    [][/\ pc = "ErrorExit" => pc' = "ErrorExit"
       /\ pc' = "ErrorExit"
          => pc \in {"Building", "CheckingStandardFlags", "ValidatingArguments", "ErrorExit"}
       /\ pc \in {"Bound", "Running"} => pc' # "ErrorExit"]_vars

\* C20 as amended: ErrorExit is absorbing and is entered only from
\* ParsingOptions when the options are rejected, from ValidatingArguments when
\* the validation returns an error, and from Running when main returns an
\* error, each time with a diagnostic and the exit code 1 or 2; a run in
\* Running moves to ErrorExit exactly when main returns an error, a run in
\* CheckingStandardFlags or in Bound never does.
C20_Amended ==
    [][/\ pc = "ErrorExit" => pc' = "ErrorExit"
       /\ (pc' = "ErrorExit" /\ pc # "ErrorExit")
          => /\ \/ pc = "Building" /\ BadFlags /\ opt_matches' = None
                \/ pc = "ValidatingArguments" /\ Unwrap(parsed').kind = "Err"
                \/ pc = "Running" /\ Unwrap(main_result').kind = "Err"
             /\ exit_code' \in {Some(1), Some(2)}
             /\ Len(stderr') > Len(stderr)
       /\ pc = "Running"
          => /\ Unwrap(main_result').kind = "Err" => pc' = "ErrorExit"
             /\ Unwrap(main_result').kind = "Ok" => pc' = "Done"
       /\ pc = "Bound" => pc' = "Running"
       /\ pc = "CheckingStandardFlags" => pc' \in {"Done", "ValidatingArguments"}]_vars

C20_Witness ==
    /\ pc = "ErrorExit"
    /\ IsSome(main_result) /\ Unwrap(main_result).kind = "Err"
    /\ Unwrap(Unwrap(main_result).err).type = "other"
    /\ exit_code = Some(1)
    /\ steps[Len(steps)] = "main"

-----------------------------------------------------------------------------
(* Further properties of Builder::run. *)

\* The run rendered the help.
HelpDone == pc = "Done" /\ steps = <<"opts.parse", "flags", "help">>

\* C21: when the help is rendered, the arguments block, the text
\* Arguments::usage returns, is printed right after the options block if and
\* only if that text is not empty, also for a registry whose declared names
\* are empty strings.
C21_Original ==
    HelpDone
    => /\ stdout[1].print = "opts.usage"
       /\ (usage(positional_spec, trailing_spec) # <<>>)
          <=> /\ Len(stdout) = 2
              /\ stdout[2] = [print |-> "args.usage",
                              text |-> usage(positional_spec, trailing_spec)]
       /\ (usage(positional_spec, trailing_spec) = <<>>) => Len(stdout) = 1

\* C22: an error returned by main that is a UsageError or a getopts::Fail is
\* handled as a usage error of the start-up: Builder::run prints the line
\* "Usage error: <message>" and the hint line and returns 2, not the line
\* "<program name>: <message>" with 1.
C22_MainUsageError ==
    (/\ IsSome(main_result) /\ Unwrap(main_result).kind = "Err"
     /\ Unwrap(Unwrap(main_result).err).type \in {"UsageError", "getopts::Fail"})
    => /\ exit_code = Some(2)
       /\ stderr = << <<"Usage error: ">> \o Unwrap(Unwrap(main_result).err).message,
                      HintLine >>
       /\ stderr[1][1] # "prog"
       /\ stdout = <<>>

C22_Witness ==
    /\ IsSome(main_result) /\ Unwrap(main_result).kind = "Err"
    /\ Unwrap(Unwrap(main_result).err).type = "getopts::Fail"
    /\ IsSome(manpage)
    /\ exit_code = Some(2)
    /\ stderr[1] = <<"Usage error: ", "bad option">>

VersionPrinted == \E i \in 1..Len(stdout) : stdout[i].print = "version"

\* C23: a run whose argument vector getopts accepts and which holds both the
\* help and the version flag renders the help alone, never the version,
\* returns 0 and neither validates the arguments nor invokes main; the
\* version is rendered only when the version flag is present and the help
\* flag is absent.
C23_HelpBeforeVersion ==
    /\ (Started /\ ~BadFlags /\ HelpGiven /\ VersionGiven)
       => /\ ~VersionPrinted
          /\ parsed = None /\ free_in = None /\ main_calls = 0
          /\ pc \in {"CheckingStandardFlags", "Done"}
          /\ pc = "Done"
             => /\ HelpRendered
                /\ exit_code = Some(0)
                /\ steps = <<"opts.parse", "flags", "help">>
    /\ VersionPrinted
       => /\ VersionGiven /\ ~HelpGiven /\ ~BadFlags
          /\ stdout = <<[print |-> "version", text |-> <<"Prog", " ", "0.0.0">>]>>
          /\ exit_code = Some(0) /\ parsed = None /\ main_calls = 0

C23_Witness ==
    /\ pc = "Done" /\ env_args = <<"--version", "-h">>
    /\ positional_spec = <<>> /\ trailing_spec = None
    /\ Len(stdout) = 1 /\ stdout[1].print = "opts.usage"
    /\ exit_code = Some(0)

-----------------------------------------------------------------------------
\* C24: whenever Arguments::parse succeeds, the values bound to the
\* positionals, taken in declaration order, followed by the trailing values
\* are the free arguments exactly (nothing dropped, duplicated or reordered),
\* and there are as many positional bindings as declared positionals.

\* The values of the map m under the names of positional_spec, in order.
BoundValues(m) == [i \in 1..Len(positional_spec) |-> m[DeclaredNames[i]]]

C24_Partition ==
    (IsSome(parsed) /\ Outcome.kind = "Ok")
    => /\ \A i \in 1..Len(positional_spec) : DeclaredNames[i] \in DOMAIN Outcome.positional
       /\ Cardinality(DOMAIN Outcome.positional) = Len(positional_spec)
       /\ BoundValues(Outcome.positional) \o Outcome.trailing = Free

C24_Witness ==
    /\ IsSome(parsed) /\ Outcome.kind = "Ok"
    /\ DeclaredNames = <<"a", "b">> /\ IsSome(trailing_spec)
    /\ Free = <<"y", "x", "y">>
    /\ Outcome.positional["a"] = "y" /\ Outcome.positional["b"] = "x"
    /\ Outcome.trailing = <<"y">>

-----------------------------------------------------------------------------
\* C25: for every text, pad_width and max_width, replacing each line break
\* of wrap's output, together with the pad_width spaces that follow it, by a
\* single space yields the original text: wrap only turns some separating
\* spaces into line breaks.

\* text with every line break and the pad_width characters after it replaced
\* by one space.
RECURSIVE Rejoin(_, _)
Rejoin(text, pad_width) ==
    IF text = <<>> THEN <<>>
    ELSE IF Head(text) = NL
         THEN <<" ">> \o Rejoin(SubSeq(text, 2 + pad_width, Len(text)), pad_width)
         ELSE <<Head(text)>> \o Rejoin(Tail(text), pad_width)

C25_Original == CalledFn("wrap") => Rejoin(Ret, Arg(2)) = Arg(1)

====
